---- MODULE Spec2Model ----
(***************************************************************************)
(* The invoice ledger of the inventory and billing application: the       *)
(* validated create_invoice of inventory_billing_app1.py and the legacy   *)
(* create_invoice of inventory_billing_app.py, run statement by statement *)
(* inside one SQLite transaction, next to a reader on its own connection  *)
(* (Spec); a session of several operations with the Save Movements button *)
(* and the delete buttons of the Admin page (OpsSpec); the start-up       *)
(* schema routine on the files it may find (SchemaSpec); and the script   *)
(* runs of a browser session, each with its start-up and the handler of   *)
(* the pressed button (AppSpec).                                          *)
(*                                                                         *)
(* Money and quantities are exact integers; one unit of money is 0.001 of *)
(* the currency, so the reconciliation tolerance 0.005 is 5.  Binary      *)
(* floating point rounding of the sums is not modelled.                   *)
(* Columns that no statement of the ledger reads back (date, notes,       *)
(* units) are left out of the rows.                                       *)
(***************************************************************************)
EXTENDS Integers, Sequences, FiniteSets, TLC

VARIABLES
    db,     \* the committed contents of the database file
    tx,     \* the working copy of the connection that runs create_invoice
    pc,     \* position of create_invoice: "idle", the loop it is in, "returned"
    idx,    \* 1-based position inside the current loop
    call,   \* arguments and locals of the current or last create_invoice
    ret,    \* what the current or last create_invoice returned
    pre,    \* committed contents when the current or last call was entered
    calls,  \* number of create_invoice calls made so far
    view,   \* what the reader connection saw at its last read
    issued, \* the invoice ids that create_invoice has returned so far
    admin,  \* the button other than Save Invoice whose handler ran last
    schema, \* the columns of every table of the database file
    boot,   \* position and outcome of the start-up routine of the script run
    authed, \* st.session_state.authed of the browser session
    request \* the button pressed for this script run, with the form as entered

\* the variables that no statement of create_invoice writes
ext == <<issued, admin, schema, boot, authed, request>>

vars == <<db, tx, pc, idx, call, ret, pre, calls, view, issued, admin, schema, boot,
          authed, request>>

---------------------------------------------------------------------------
(* Bounds of the model and the values the inputs are drawn from.          *)

MaxLines == 2
MaxColls == 1
MaxDues == 1
MaxCalls == 1

\* abs(total - (coll_total + due_total)) < 0.005, in units of 0.001
Tolerance == 5

\* a dictionary key that is absent
NoValue == "<missing>"

PersonNames == {"P", " Q "}
ItemNames == {"", "A"}
UnitPrices == {500, 502}
Qtys == {0, 2}
Methods == {"Cash", "UPI", "Card"}
CollAmounts == {-1000, 0, 999}
Shops == {" S1 ", "", NoValue}
DueAmounts == {-1000, 0, 1000}

Highlights == {FALSE}
LineInputs ==
    [item : ItemNames, unit_price : UnitPrices, qty : Qtys, highlight : Highlights]
CollInputs == [method : Methods, amount : CollAmounts]
DueInputs == [shop_no : Shops, amount : DueAmounts]

SeqsUpTo(S, n) == UNION {[1..k -> S] : k \in 0..n}

---------------------------------------------------------------------------
(* Pure helpers of create_invoice.                                        *)

RECURSIVE SumSeq(_)
SumSeq(s) == IF s = <<>> THEN 0 ELSE Head(s) + SumSeq(Tail(s))

Abs(x) == IF x < 0 THEN -x ELSE x

\* total = sum(float(l.get("unit_price", 0)) * float(l.get("qty", 0)) for l in lines)
\* (alternative: the lines without an item dropped before the sum)
LineTotalItemsOnly(lines) ==
    SumSeq([i \in 1..Len(lines) |->
              IF lines[i].item = "" THEN 0 ELSE lines[i].unit_price * lines[i].qty])
LineTotal(lines) ==
    SumSeq([i \in 1..Len(lines) |-> lines[i].unit_price * lines[i].qty])

\* coll_total = sum(float(c.get("amount", 0)) for c in collections); due_total alike
AmountTotal(entries) ==
    SumSeq([i \in 1..Len(entries) |-> entries[i].amount])

\* ok = abs(total - (coll_total + due_total)) < 0.005
\* (alternatives: no check at all; exact equality instead of the tolerance)
ReconcilesAlways(total, coll_total, due_total) == TRUE
ReconcilesExact(total, coll_total, due_total) == total = coll_total + due_total
Reconciles(total, coll_total, due_total) ==
    Abs(total - (coll_total + due_total)) < Tolerance

\* s.strip(): the text without the blanks around it, for the texts the
\* inputs are drawn from
\* (alternative: the text stored as it was typed)
StrStripNone(s) == s
StrStrip(s) ==
    CASE s = " S1 " -> "S1"
      [] s = " Q "  -> "Q"
      [] s = " A "  -> "A"
      [] s = " "    -> ""
      [] OTHER      -> s

\* f"{x:.2f}": the figure in hundredths, rounded to nearest.  A figure that
\* lies exactly between two hundredths is rounded by its binary value in the
\* program; the input values above produce no such figure.
Fmt2(x) == IF x >= 0 THEN (x + 5) \div 10 ELSE -((5 - x) \div 10)

\* msg = f"Total ({total:.2f}) must equal Collections ({coll_total:.2f}) + Dues ({due_total:.2f})."
Msg(total, coll_total, due_total) ==
    [total |-> Fmt2(total), collections |-> Fmt2(coll_total), dues |-> Fmt2(due_total)]

NoMsg == [total |-> 0, collections |-> 0, dues |-> 0]

---------------------------------------------------------------------------
(* The database.                                                           *)

Tables == {"invoices", "invoice_lines", "invoice_collections", "invoice_dues",
           "collections", "inventory_movements"}

EmptyDb ==
    [items               |-> <<>>,
     invoices            |-> <<>>,
     invoice_lines       |-> <<>>,
     invoice_collections |-> <<>>,
     invoice_dues        |-> <<>>,
     collections         |-> <<>>,
     inventory_movements |-> <<>>,
     seq                 |-> [t \in Tables |-> 0]]

\* the highest id among the rows of a table, 0 for an empty table
MaxRowId(rows) ==
    IF rows = <<>> THEN 0
    ELSE CHOOSE m \in {rows[i].id : i \in 1..Len(rows)} :
            \A i \in 1..Len(rows) : rows[i].id <= m

\* INSERT into a table whose id is INTEGER PRIMARY KEY AUTOINCREMENT: the
\* id is one more than the highest id the table ever held
\* (alternative: a plain INTEGER PRIMARY KEY, one more than the highest id
\* the table holds now)
InsertRowPlainKey(d, table, row) ==
    [d EXCEPT ![table] = Append(@, [id |-> MaxRowId(d[table]) + 1] @@ row),
              !.seq[table] = MaxRowId(d[table]) + 1]
InsertRow(d, table, row) ==
    [d EXCEPT ![table] = Append(@, [id |-> d.seq[table] + 1] @@ row),
              !.seq[table] = @ + 1]

\* cur.lastrowid after the INSERT into invoices
LastRowId(d) == d.seq["invoices"]

\* item TEXT NOT NULL REFERENCES items(item), with PRAGMA foreign_keys=ON
\* (alternative: the pragma not set, any item is accepted)
ItemExistsAlways(d, item) == TRUE
ItemExists(d, item) == item \in DOMAIN d.items

\* The file as other connections see it after a statement that ran inside
\* the open transaction of sqlite3's default isolation level: unchanged.
\* (alternative: isolation_level=None, every statement commits at once)
AfterStatementAutocommit(committed, working) == working
AfterStatement(committed, working) == committed

\* "with get_conn() as conn": an exception leaving the block rolls back
\* (alternative: the statements run so far are kept)
OnExceptionCommit(committed, working) == working
OnException(committed, working) == committed

---------------------------------------------------------------------------
(* The schema of the database file: for every table that exists, its       *)
(* columns in declaration order.                                           *)

Col(name) == [name |-> name, generated |-> FALSE]

\* name AS (...) STORED
Gen(name) == [name |-> name, generated |-> TRUE]

\* invoice_lines as inventory_billing_app.py creates it
LegacyInvoiceLines ==
    <<Col("id"), Col("invoice_id"), Col("line_no"), Col("item"),
      Col("unit_price"), Col("qty"), Col("units"), Gen("amount")>>

\* the CREATE TABLE IF NOT EXISTS statements of init_db_schema, in order
BaseTables ==
    << [table |-> "items", columns |-> <<Col("item"), Col("rate")>>],
       [table |-> "inventory_movements",
        columns |-> <<Col("id"), Col("date"), Col("item"), Col("opening_balance"),
                      Col("stock_in"), Col("stock_out"),
                      Col("stock_returning_today"), Gen("closing_balance"),
                      Gen("stock_remaining")>>],
       [table |-> "invoices",
        columns |-> <<Col("id"), Col("date"), Col("person_name"),
                      Col("total_amount"), Col("collection_amount"),
                      Col("due_amount"), Col("notes")>>],
       [table |-> "invoice_lines",
        columns |-> <<Col("id"), Col("invoice_id"), Col("line_no"), Col("item"),
                      Col("unit_price"), Col("qty"), Col("units"),
                      Col("highlight"), Gen("amount")>>],
       [table |-> "invoice_collections",
        columns |-> <<Col("id"), Col("invoice_id"), Col("method"), Col("amount")>>],
       [table |-> "invoice_dues",
        columns |-> <<Col("id"), Col("invoice_id"), Col("shop_no"), Col("amount")>>],
       [table |-> "collections",
        columns |-> <<Col("id"), Col("date"), Col("amount"), Col("note")>>] >>

\* the CREATE TABLE IF NOT EXISTS statements of migrate_db, in order
LedgerTables == SelectSeq(BaseTables,
                    LAMBDA b : b.table \in {"invoice_collections", "invoice_dues"})

\* a file that does not exist yet
NoSchema == <<>>

\* CREATE TABLE IF NOT EXISTS
CreateTableIfNotExists(s, table, columns) ==
    IF table \in DOMAIN s THEN s
    ELSE [t \in DOMAIN s \cup {table} |-> IF t = table THEN columns ELSE s[t]]

RECURSIVE CreateAll(_, _)
CreateAll(s, statements) ==
    IF statements = <<>> THEN s
    ELSE CreateAll(CreateTableIfNotExists(s, Head(statements).table,
                                          Head(statements).columns),
                   Tail(statements))

\* the schema init_db_schema gives a new file
CurrentSchema == CreateAll(NoSchema, BaseTables)

\* the schema init_db of inventory_billing_app.py gives a new file
LegacySchema ==
    [t \in {"items", "inventory_movements", "invoices", "invoice_lines",
            "collections"} |->
       IF t = "invoice_lines" THEN LegacyInvoiceLines ELSE CurrentSchema[t]]

\* PRAGMA table_info(table): the columns that are not generated; no row for
\* a table that does not exist
TableInfo(s, table) ==
    IF table \in DOMAIN s
      THEN SelectSeq(s[table], LAMBDA c : ~c.generated)
      ELSE <<>>

\* cols = [r[1] for r in cur.fetchall()]; return column in cols
\* (alternative: the column is never found)
TableHasColumnNever(s, table, column) == FALSE
TableHasColumn(s, table, column) ==
    \E i \in 1..Len(TableInfo(s, table)) : TableInfo(s, table)[i].name = column

\* ALTER TABLE table ADD COLUMN column: raises when the table does not
\* exist or has a column of that name
AlterRaises(s, table, column) ==
    \/ table \notin DOMAIN s
    \/ \E i \in 1..Len(s[table]) : s[table][i].name = column

AddColumn(s, table, column) == [s EXCEPT ![table] = Append(@, Col(column))]

\* the schema of a legacy file that the validated variant has opened once
UpgradedSchema ==
    AddColumn(CreateAll(LegacySchema, BaseTables), "invoice_lines", "highlight")

NoBoot(start) ==
    [at |-> "init_db_schema", step |-> 1, runs |-> 0, error |-> FALSE,
     start |-> start, first |-> NoSchema]

\* the start-up routine has run on a new file
Booted ==
    [at |-> "done", step |-> 1, runs |-> 1, error |-> FALSE,
     start |-> NoSchema, first |-> CurrentSchema]

---------------------------------------------------------------------------
(* State after start-up: the tables exist; the items table is empty (no    *)
(* seed workbook) or holds the seeded items; a database used before holds  *)
(* the invoice of an earlier session.                                      *)

SeededItems == [n \in {"A"} |-> 500]

SeededDb == [EmptyDb EXCEPT !.items = SeededItems]

\* the seeded database after create_invoice(person_name = "P",
\* lines = [A, 0.500 x 2], collections = [Cash 0.999], dues = []) of an earlier session
UsedDb ==
    InsertRow(
      InsertRow(
        InsertRow(
          InsertRow(SeededDb, "invoices",
             [person_name |-> "P", total_amount |-> 1000,
              collection_amount |-> 999, due_amount |-> 0]),
          "invoice_lines",
          [invoice_id |-> 1, line_no |-> 1, item |-> "A", unit_price |-> 500, qty |-> 2,
           highlight |-> 0]),
        "invoice_collections",
        [invoice_id |-> 1, method |-> "Cash", amount |-> 999]),
      "collections",
      [amount |-> 999, note |-> [invoice |-> 1, person |-> "P"]])

\* the seeded database after create_invoice(person_name = "P",
\* lines = [A, 0.500 x 2], collection_amount = 0.999) of inventory_billing_app.py:
\* invoice_lines has no highlight column
LegacyDb ==
    InsertRow(
      InsertRow(
        InsertRow(SeededDb, "invoices",
           [person_name |-> "P", total_amount |-> 1000,
            collection_amount |-> 999, due_amount |-> 1]),
        "invoice_lines",
        [invoice_id |-> 1, line_no |-> 1, item |-> "A", unit_price |-> 500, qty |-> 2]),
      "collections",
      [amount |-> 999, note |-> [invoice |-> 1, person |-> "P"]])

\* the rows of a table after ALTER TABLE ... ADD COLUMN column ... NOT NULL
\* DEFAULT value: every row reads the default in the new column
\* (alternative: the table made anew with the new column, its rows lost)
AddColumnDataAnew(rows, column, value) == <<>>
AddColumnData(rows, column, value) ==
    [i \in 1..Len(rows) |->
       [f \in DOMAIN rows[i] \cup {column} |->
          IF f = column THEN value ELSE rows[i][f]]]

\* the legacy database after the validated variant has opened it once
UpgradedDb ==
    [LegacyDb EXCEPT !.invoice_lines = AddColumnData(@, "highlight", 0)]

NoCall ==
    [variant |-> "none", person_name |-> "", lines |-> <<>>,
     collections |-> <<>>, dues |-> <<>>,
     total |-> 0, coll_total |-> 0, due_total |-> 0, inv_id |-> 0]

NoRet == [status |-> "none", ok |-> FALSE, msg |-> NoMsg, inv_id |-> 0]

NoView == [during |-> FALSE, data |-> EmptyDb]

NoAdmin == [op |-> "none", id |-> 0, item |-> "", rows |-> <<>>]

\* no button pressed: the script run only draws the page
NoRequest == [op |-> "none", form |-> <<>>]

\* a page that is drawn, in a session with the given authenticated flag
Drawn(flag) ==
    /\ db \in {EmptyDb, SeededDb, UsedDb}
    /\ tx = db
    /\ pc = "idle"
    /\ idx = 1
    /\ call = NoCall
    /\ ret = NoRet
    /\ pre = db
    /\ calls = 0
    /\ view = NoView
    /\ issued = {}
    /\ admin = NoAdmin
    /\ schema = CurrentSchema
    /\ boot = Booted
    /\ authed = flag
    /\ request = NoRequest

\* line 349: the flag of a new session is False
Init == Drawn(FALSE)

---------------------------------------------------------------------------
(* create_invoice of inventory_billing_app1.py                             *)

\* lines 250-257: the totals, the check, and the early return
RejectInvoice(person_name, lines, collections, dues) ==
    LET total      == LineTotal(lines)
        coll_total == AmountTotal(collections)
        due_total  == AmountTotal(dues)
        ok         == Reconciles(total, coll_total, due_total)
    IN  /\ ~ok
        /\ call' = [variant |-> "validated", person_name |-> person_name,
                    lines |-> lines,
                    collections |-> collections, dues |-> dues,
                    total |-> total, coll_total |-> coll_total,
                    due_total |-> due_total, inv_id |-> -1]
        /\ ret' = [status |-> "rejected", ok |-> FALSE,
                   msg |-> Msg(total, coll_total, due_total), inv_id |-> -1]
        /\ pre' = db
        /\ pc' = "returned"
        /\ UNCHANGED <<db, tx, idx, view, ext>>

\* lines 250-266: the totals, the check, and the INSERT of the invoice row
BeginInvoice(person_name, lines, collections, dues) ==
    LET total      == LineTotal(lines)
        coll_total == AmountTotal(collections)
        due_total  == AmountTotal(dues)
        ok         == Reconciles(total, coll_total, due_total)
        working    == InsertRow(db, "invoices",
                          [person_name |-> StrStrip(person_name),
                           total_amount |-> total, collection_amount |-> coll_total,
                           due_amount |-> due_total])
    IN  /\ ok
        /\ tx' = working
        /\ db' = AfterStatement(db, working)
        /\ call' = [variant |-> "validated", person_name |-> person_name,
                    lines |-> lines,
                    collections |-> collections, dues |-> dues,
                    total |-> total, coll_total |-> coll_total,
                    due_total |-> due_total, inv_id |-> LastRowId(working)]
        /\ ret' = [NoRet EXCEPT !.status = "running"]
        /\ pre' = db
        /\ pc' = "lines"
        /\ idx' = 1
        /\ UNCHANGED <<view, ext>>

(* create_invoice of inventory_billing_app.py                              *)

\* lines 206-216: total, due, and the INSERT of the invoice row
BeginInvoiceLegacy(person_name, lines, collection_amount) ==
    LET total   == LineTotal(lines)
        due     == total - collection_amount
        working == InsertRow(db, "invoices",
                       [person_name |-> StrStrip(person_name),
                        total_amount |-> total, collection_amount |-> collection_amount,
                        due_amount |-> due])
    IN  /\ tx' = working
        /\ db' = AfterStatement(db, working)
        /\ call' = [variant |-> "legacy", person_name |-> person_name,
                    lines |-> lines,
                    collections |-> <<>>, dues |-> <<>>,
                    total |-> total, coll_total |-> collection_amount,
                    due_total |-> due, inv_id |-> LastRowId(working)]
        /\ ret' = [NoRet EXCEPT !.status = "running"]
        /\ pre' = db
        /\ pc' = "lines"
        /\ idx' = 1
        /\ UNCHANGED <<view, ext>>

(* Steps shared by both variants.                                          *)

\* the exception leaves the with block: rollback, and the call raises
Abort ==
    /\ db' = OnException(db, tx)
    /\ tx' = db'
    /\ pc' = "returned"
    /\ idx' = 1
    /\ ret' = [status |-> "raised", ok |-> FALSE, msg |-> NoMsg, inv_id |-> -1]
    /\ UNCHANGED <<call, pre, view, calls, ext>>

\* one INSERT inside the transaction
Execute(working) ==
    /\ tx' = working
    /\ db' = AfterStatement(db, working)

\* the row one line is stored as: line_no is the position in the submitted list
\* (alternative: enumerate without start=1)
LineRowFromZero(inv_id, i, line) ==
    [invoice_id |-> inv_id, line_no |-> i - 1, item |-> line.item,
     unit_price |-> line.unit_price, qty |-> line.qty,
     highlight |-> IF line.highlight THEN 1 ELSE 0]
LineRow(inv_id, i, line) ==
    [invoice_id |-> inv_id, line_no |-> i, item |-> line.item,
     unit_price |-> line.unit_price, qty |-> line.qty,
     highlight |-> IF line.highlight THEN 1 ELSE 0]

\* whether the loop stores a line: if not line.get("item"): continue
\* (alternative: lines of quantity zero dropped as well)
StoresLineNonZeroQty(line) == line.item # "" /\ line.qty # 0
StoresLine(line) == line.item # ""

\* for i, line in enumerate(lines, start=1): a line that is not stored
SkipLine ==
    /\ pc = "lines"
    /\ idx <= Len(call.lines)
    /\ ~StoresLine(call.lines[idx])
    /\ idx' = idx + 1
    /\ UNCHANGED <<db, tx, pc, call, ret, pre, view, calls, ext>>

InsertLine ==
    /\ pc = "lines"
    /\ idx <= Len(call.lines)
    /\ StoresLine(call.lines[idx])
    /\ ItemExists(tx, call.lines[idx].item)
    /\ Execute(InsertRow(tx, "invoice_lines",
                   LineRow(call.inv_id, idx, call.lines[idx])))
    /\ idx' = idx + 1
    /\ UNCHANGED <<pc, call, ret, pre, view, calls, ext>>

\* FOREIGN KEY constraint failed
LineFails ==
    /\ pc = "lines"
    /\ idx <= Len(call.lines)
    /\ StoresLine(call.lines[idx])
    /\ ~ItemExists(tx, call.lines[idx].item)
    /\ Abort

LinesDone ==
    /\ pc = "lines"
    /\ idx > Len(call.lines)
    /\ pc' = IF call.variant = "validated" THEN "collections" ELSE "aggregate"
    /\ idx' = 1
    /\ UNCHANGED <<db, tx, call, ret, pre, view, calls, ext>>

\* whether the loop stores a collection:
\* if float(c.get("amount",0)) <= 0: continue
\* (alternative: only the amounts of zero dropped)
StoresCollectionNonZero(c) == c.amount # 0
StoresCollection(c) == c.amount > 0

SkipCollection ==
    /\ pc = "collections"
    /\ idx <= Len(call.collections)
    /\ ~StoresCollection(call.collections[idx])
    /\ idx' = idx + 1
    /\ UNCHANGED <<db, tx, pc, call, ret, pre, view, calls, ext>>

\* method = "Cash" if c.get("method") not in ("Cash","UPI") else c["method"]
\* (alternative: the method stored as submitted)
CoerceMethodNone(method) == method
CoerceMethod(method) == IF method \notin {"Cash", "UPI"} THEN "Cash" ELSE method

\* method TEXT NOT NULL CHECK(method IN ('Cash','UPI'))
MethodAllowed(method) == method \in {"Cash", "UPI"}

\* the INSERT of one collection; a method the CHECK constraint refuses makes
\* the statement raise
InsertCollection ==
    /\ pc = "collections"
    /\ idx <= Len(call.collections)
    /\ StoresCollection(call.collections[idx])
    /\ LET method == CoerceMethod(call.collections[idx].method)
       IN  IF MethodAllowed(method)
             THEN /\ Execute(InsertRow(tx, "invoice_collections",
                                [invoice_id |-> call.inv_id,
                                 method |-> method,
                                 amount |-> call.collections[idx].amount]))
                  /\ idx' = idx + 1
                  /\ UNCHANGED <<pc, call, ret, pre, view, calls, ext>>
             ELSE Abort

CollectionsDone ==
    /\ pc = "collections"
    /\ idx > Len(call.collections)
    /\ pc' = "dues"
    /\ idx' = 1
    /\ UNCHANGED <<db, tx, call, ret, pre, view, calls, ext>>

\* whether the loop stores a due: if float(d.get("amount",0)) <= 0: continue
\* (alternative: a due without a shop number dropped as well)
StoresDueWithShop(d) == d.amount > 0 /\ d.shop_no \notin {"", NoValue}
StoresDue(d) == d.amount > 0

SkipDue ==
    /\ pc = "dues"
    /\ idx <= Len(call.dues)
    /\ ~StoresDue(call.dues[idx])
    /\ idx' = idx + 1
    /\ UNCHANGED <<db, tx, pc, call, ret, pre, view, calls, ext>>

\* (inv_id, str(d["shop_no"]).strip(), float(d["amount"]))
InsertDue ==
    /\ pc = "dues"
    /\ idx <= Len(call.dues)
    /\ StoresDue(call.dues[idx])
    /\ call.dues[idx].shop_no # NoValue
    /\ Execute(InsertRow(tx, "invoice_dues",
                   [invoice_id |-> call.inv_id,
                    shop_no |-> StrStrip(call.dues[idx].shop_no),
                    amount |-> call.dues[idx].amount]))
    /\ idx' = idx + 1
    /\ UNCHANGED <<pc, call, ret, pre, view, calls, ext>>

\* d["shop_no"] raises KeyError when the entry has no shop_no
DueFails ==
    /\ pc = "dues"
    /\ idx <= Len(call.dues)
    /\ StoresDue(call.dues[idx])
    /\ call.dues[idx].shop_no = NoValue
    /\ Abort

DuesDone ==
    /\ pc = "dues"
    /\ idx > Len(call.dues)
    /\ pc' = "aggregate"
    /\ idx' = 1
    /\ UNCHANGED <<db, tx, call, ret, pre, view, calls, ext>>

\* if coll_total != 0:   (legacy: if collection_amount and collection_amount != 0:)
\* (alternative: only a positive total recorded)
NeedsAggregatePositive(coll_total) == coll_total > 0
NeedsAggregate(coll_total) == coll_total # 0

\* f"Invoice #{inv_id} - {person_name}"
Note(inv_id, person_name) == [invoice |-> inv_id, person |-> person_name]

\* INSERT INTO collections(date, amount, note)
InsertAggregate ==
    /\ pc = "aggregate"
    /\ NeedsAggregate(call.coll_total)
    /\ Execute(InsertRow(tx, "collections",
                   [amount |-> call.coll_total,
                    note |-> Note(call.inv_id, call.person_name)]))
    /\ pc' = "commit"
    /\ UNCHANGED <<idx, call, ret, pre, view, calls, ext>>

SkipAggregate ==
    /\ pc = "aggregate"
    /\ ~NeedsAggregate(call.coll_total)
    /\ pc' = "commit"
    /\ UNCHANGED <<db, tx, idx, call, ret, pre, view, calls, ext>>

\* conn.commit(), and the return
Commit ==
    /\ pc = "commit"
    /\ db' = tx
    /\ pc' = "returned"
    /\ ret' = [status |-> "saved", ok |-> TRUE, msg |-> NoMsg, inv_id |-> call.inv_id]
    /\ UNCHANGED <<tx, idx, call, pre, view, calls, ext>>

\* the caller shows the outcome and the script run ends
Return ==
    /\ pc = "returned"
    /\ pc' = "idle"
    /\ call' = NoCall
    /\ ret' = NoRet
    /\ pre' = db
    /\ issued' = IF ret.status = "saved" THEN issued \cup {ret.inv_id} ELSE issued
    /\ admin' = NoAdmin
    /\ request' = NoRequest
    /\ UNCHANGED <<db, tx, idx, view, calls, schema, boot, authed>>

---------------------------------------------------------------------------
(* A reader on a connection of its own (the report and extraction pages   *)
(* of another session): it sees the committed contents.                    *)

Read ==
    /\ view' = [during |-> pc \notin {"idle", "returned"}, data |-> db]
    /\ view' # view
    /\ UNCHANGED <<db, tx, pc, idx, call, ret, pre, calls, ext>>

---------------------------------------------------------------------------

\* the Save Invoice button of the validated variant calls create_invoice
CallCreateInvoice ==
    /\ pc = "idle"
    /\ calls < MaxCalls
    /\ calls' = calls + 1
    /\ \E person_name \in PersonNames,
          lines \in SeqsUpTo(LineInputs, MaxLines),
          collections \in SeqsUpTo(CollInputs, MaxColls),
          dues \in SeqsUpTo(DueInputs, MaxDues) :
            \/ RejectInvoice(person_name, lines, collections, dues)
            \/ BeginInvoice(person_name, lines, collections, dues)

\* the Save Invoice button of the legacy variant calls create_invoice
CallCreateInvoiceLegacy ==
    /\ pc = "idle"
    /\ calls < MaxCalls
    /\ calls' = calls + 1
    /\ \E person_name \in PersonNames,
          lines \in SeqsUpTo(LineInputs, MaxLines),
          collection_amount \in CollAmounts :
            BeginInvoiceLegacy(person_name, lines, collection_amount)

Next ==
    \/ CallCreateInvoice
    \/ CallCreateInvoiceLegacy
    \/ SkipLine
    \/ InsertLine
    \/ LineFails
    \/ LinesDone
    \/ SkipCollection
    \/ InsertCollection
    \/ CollectionsDone
    \/ SkipDue
    \/ InsertDue
    \/ DueFails
    \/ DuesDone
    \/ InsertAggregate
    \/ SkipAggregate
    \/ Commit
    \/ Return
    \/ Read

Spec == Init /\ [][Next]_vars

---------------------------------------------------------------------------
(* The operations of a longer session: create_invoice called again, the    *)
(* Save Movements button, and the delete buttons of the Admin page.  Each  *)
(* button runs one statement or one transaction on a connection of its     *)
(* own and commits; the script run then ends (Return).                     *)

MaxSessionCalls == 2
MaxMovements == 2

\* the invoices submitted in such a session
SessionOrders ==
    { [person_name |-> "P",
       lines       |-> <<[item |-> "A", unit_price |-> 500, qty |-> 2, highlight |-> FALSE]>>,
       collections |-> <<[method |-> "Card", amount |-> 999]>>,
       dues        |-> <<[shop_no |-> " S1 ", amount |-> 0]>>],
      [person_name |-> " Q ",
       lines       |-> <<[item |-> "", unit_price |-> 500, qty |-> 0, highlight |-> FALSE],
                         [item |-> "A", unit_price |-> 500, qty |-> 2, highlight |-> TRUE]>>,
       collections |-> <<[method |-> "Cash", amount |-> 0]>>,
       dues        |-> <<[shop_no |-> " S1 ", amount |-> 1000]>>],
      [person_name |-> "P",
       lines       |-> <<[item |-> "A", unit_price |-> 500, qty |-> 2, highlight |-> FALSE]>>,
       collections |-> <<>>,
       dues        |-> <<[shop_no |-> NoValue, amount |-> 1000]>>],
      [person_name |-> "P",
       lines       |-> <<[item |-> "A", unit_price |-> 500, qty |-> 2, highlight |-> FALSE]>>,
       collections |-> <<>>,
       dues        |-> <<>>] }

\* the Save Invoice button, pressed again in the same session
CallCreateInvoiceAgain ==
    /\ pc = "idle"
    /\ calls < MaxSessionCalls
    /\ calls' = calls + 1
    /\ \E o \in SessionOrders :
          \/ RejectInvoice(o.person_name, o.lines, o.collections, o.dues)
          \/ BeginInvoice(o.person_name, o.lines, o.collections, o.dues)

\* what a button other than Save Invoice has done when its handler ends
Done(op, id, item, rows, status, after) ==
    /\ pc = "idle"
    /\ db' = after
    /\ tx' = after
    /\ pre' = db
    /\ admin' = [op |-> op, id |-> id, item |-> item, rows |-> rows]
    /\ ret' = [NoRet EXCEPT !.status = status]
    /\ pc' = "returned"
    /\ UNCHANGED <<idx, call, calls, view, issued, schema, boot, authed, request>>

(* add_inventory_movement                                                  *)

MovementItems == {"", "A", "Z"}

MovementInputs ==
    [item : MovementItems, opening_balance : {50}, stock_in : {10},
     stock_out : {5}, stock_returning_today : {2}]

\* the row as stored: closing_balance and stock_remaining are generated
\* (alternative: the returned stock left out of the closing balance)
MovementRowNoReturn(r) ==
    [item |-> r.item, opening_balance |-> r.opening_balance,
     stock_in |-> r.stock_in, stock_out |-> r.stock_out,
     stock_returning_today |-> r.stock_returning_today,
     closing_balance |-> r.opening_balance + r.stock_in - r.stock_out,
     stock_remaining |-> r.opening_balance + r.stock_in - r.stock_out]
MovementRow(r) ==
    [item |-> r.item, opening_balance |-> r.opening_balance,
     stock_in |-> r.stock_in, stock_out |-> r.stock_out,
     stock_returning_today |-> r.stock_returning_today,
     closing_balance |-> r.opening_balance + r.stock_in - r.stock_out
                            + r.stock_returning_today,
     stock_remaining |-> r.opening_balance + r.stock_in - r.stock_out
                            + r.stock_returning_today]

\* for r in rows: the working copy when the loop ends, and whether an
\* INSERT raised (FOREIGN KEY constraint failed)
RECURSIVE RunMovements(_, _)
RunMovements(working, rows) ==
    IF rows = <<>> THEN [data |-> working, raised |-> FALSE]
    ELSE IF Head(rows).item = "" THEN RunMovements(working, Tail(rows))
    ELSE IF ~ItemExists(working, Head(rows).item)
           THEN [data |-> working, raised |-> TRUE]
    ELSE RunMovements(InsertRow(working, "inventory_movements",
                                MovementRow(Head(rows))),
                      Tail(rows))

AddInventoryMovement ==
    /\ db.seq["inventory_movements"] < MaxMovements
    /\ \E rows \in SeqsUpTo(MovementInputs, MaxMovements) :
         LET run == RunMovements(db, rows)
         IN  IF run.raised
               THEN Done("add_inventory_movement", 0, "", rows, "raised",
                         OnException(db, run.data))
               ELSE Done("add_inventory_movement", 0, "", rows, "stored", run.data)

(* The Admin page.                                                         *)

\* DELETE FROM <table> WHERE id = ?
DeleteById(rows, id) == SelectSeq(rows, LAMBDA r : r.id # id)

\* invoice_id ... REFERENCES invoices(id) ON DELETE CASCADE
\* (alternatives: foreign keys not enforced, the children stay; the
\* children of every invoice removed)
CascadeNone(rows, inv_id) == rows
CascadeAll(rows, inv_id) == <<>>
Cascade(rows, inv_id) == SelectSeq(rows, LAMBDA r : r.invoice_id # inv_id)

\* DELETE FROM invoices WHERE id = ?: the row and what cascades from it
\* (alternative: the aggregate row whose note names the invoice removed too)
DeleteInvoiceRowsAndAggregate(d, id) ==
    [d EXCEPT !.invoices            = DeleteById(@, id),
              !.invoice_lines       = Cascade(@, id),
              !.invoice_collections = Cascade(@, id),
              !.invoice_dues        = Cascade(@, id),
              !.collections = SelectSeq(@, LAMBDA r : r.note.invoice # id)]
DeleteInvoiceRows(d, id) ==
    [d EXCEPT !.invoices            = DeleteById(@, id),
              !.invoice_lines       = Cascade(@, id),
              !.invoice_collections = Cascade(@, id),
              !.invoice_dues        = Cascade(@, id)]

\* the ids a delete button is given: those in use, 0, and one never assigned
IdsOf(table) == 0..(db.seq[table] + 1)

\* if not require_admin_auth(): st.stop() -- the Admin page goes on only
\* when the flag of the session is set
\* (alternative: the page goes on whatever the flag)
RequireAdminAuthOpen == TRUE
RequireAdminAuth == authed

DeleteInvoiceOf(id) ==
    Done("delete_invoice", id, "", <<>>, "deleted", DeleteInvoiceRows(db, id))

DeleteLineOf(id) ==
    Done("delete_line", id, "", <<>>, "deleted",
         [db EXCEPT !.invoice_lines = DeleteById(@, id)])

DeleteCollectionOf(id) ==
    Done("delete_collection", id, "", <<>>, "deleted",
         [db EXCEPT !.invoice_collections = DeleteById(@, id)])

DeleteDueOf(id) ==
    Done("delete_due", id, "", <<>>, "deleted",
         [db EXCEPT !.invoice_dues = DeleteById(@, id)])

DeleteMovementOf(id) ==
    Done("delete_movement", id, "", <<>>, "deleted",
         [db EXCEPT !.inventory_movements = DeleteById(@, id)])

DeleteInvoice ==
    RequireAdminAuth /\ \E id \in IdsOf("invoices") : DeleteInvoiceOf(id)

DeleteLine ==
    RequireAdminAuth /\ \E id \in IdsOf("invoice_lines") : DeleteLineOf(id)

DeleteCollection ==
    RequireAdminAuth /\ \E id \in IdsOf("invoice_collections") : DeleteCollectionOf(id)

DeleteDue ==
    RequireAdminAuth /\ \E id \in IdsOf("invoice_dues") : DeleteDueOf(id)

DeleteMovement ==
    RequireAdminAuth /\ \E id \in IdsOf("inventory_movements") : DeleteMovementOf(id)

(* DELETE FROM items WHERE item = ? on a connection opened by get_conn.    *)
(* No page of the application issues this statement; it is what the        *)
(* foreign keys of invoice_lines.item and inventory_movements.item guard   *)
(* against.                                                                *)

\* item REFERENCES items(item) [ON DELETE RESTRICT], PRAGMA foreign_keys=ON
\* (alternative: the pragma not set, nothing is checked)
ItemReferencedNever(d, item) == FALSE
ItemReferenced(d, item) ==
    \/ \E i \in 1..Len(d.invoice_lines) : d.invoice_lines[i].item = item
    \/ \E i \in 1..Len(d.inventory_movements) : d.inventory_movements[i].item = item

DeleteItem ==
    \E item \in DOMAIN db.items :
       IF ItemReferenced(db, item)
         THEN Done("delete_item", 0, item, <<>>, "raised", db)
         ELSE Done("delete_item", 0, item, <<>>, "deleted",
                   [db EXCEPT !.items = [n \in DOMAIN @ \ {item} |-> @[n]]])

OpsNext ==
    \/ CallCreateInvoiceAgain
    \/ SkipLine
    \/ InsertLine
    \/ LineFails
    \/ LinesDone
    \/ SkipCollection
    \/ InsertCollection
    \/ CollectionsDone
    \/ SkipDue
    \/ InsertDue
    \/ DueFails
    \/ DuesDone
    \/ InsertAggregate
    \/ SkipAggregate
    \/ Commit
    \/ Return
    \/ AddInventoryMovement
    \/ DeleteInvoice
    \/ DeleteLine
    \/ DeleteCollection
    \/ DeleteDue
    \/ DeleteMovement
    \/ DeleteItem

\* the session of an administrator who has logged in
OpsInit == Drawn(TRUE)

OpsSpec == OpsInit /\ [][OpsNext]_vars

---------------------------------------------------------------------------
(* The start-up schema routine of inventory_billing_app1.py, run statement *)
(* by statement at the start of every script run.  The sqlite3 module      *)
(* opens no transaction for CREATE TABLE and ALTER TABLE, so every         *)
(* statement changes the file at once.                                     *)

MaxRuns == 3

\* the variables that the schema routine leaves alone
ledger == <<db, tx, pc, idx, call, ret, pre, calls, view, issued, admin, authed, request>>

\* the variables that only the handlers of the pages write
caller == <<pc, idx, call, ret, pre, calls, view, issued, admin, authed, request>>

\* the database files the script may find: none, one of either variant with
\* or without an invoice, a legacy one already opened by the validated variant
StartFiles ==
    {[schema |-> NoSchema,       data |-> EmptyDb],
     [schema |-> LegacySchema,   data |-> SeededDb],
     [schema |-> LegacySchema,   data |-> LegacyDb],
     [schema |-> UpgradedSchema, data |-> UpgradedDb],
     [schema |-> CurrentSchema,  data |-> EmptyDb],
     [schema |-> CurrentSchema,  data |-> UsedDb]}

SchemaInit ==
    /\ \E file \in StartFiles : schema = file.schema /\ db = file.data
    /\ tx = db
    /\ pc = "idle"
    /\ idx = 1
    /\ call = NoCall
    /\ ret = NoRet
    /\ pre = db
    /\ calls = 0
    /\ view = NoView
    /\ issued = {}
    /\ admin = NoAdmin
    /\ boot = NoBoot(schema)
    /\ authed = FALSE
    /\ request = NoRequest

\* one CREATE TABLE IF NOT EXISTS of init_db_schema
InitDbSchema ==
    /\ boot.at = "init_db_schema"
    /\ boot.step <= Len(BaseTables)
    /\ schema' = CreateTableIfNotExists(schema, BaseTables[boot.step].table,
                                        BaseTables[boot.step].columns)
    /\ boot' = [boot EXCEPT !.step = @ + 1]
    /\ UNCHANGED ledger

\* conn.commit() of init_db_schema; init_all goes on to migrate_db
InitDbSchemaCommit ==
    /\ boot.at = "init_db_schema"
    /\ boot.step > Len(BaseTables)
    /\ boot' = [boot EXCEPT !.at = "migrate_db", !.step = 0]
    /\ UNCHANGED <<schema, ledger>>

\* if not table_has_column(conn, "invoice_lines", "highlight"): ALTER TABLE
MigrateDbHighlight ==
    /\ boot.at = "migrate_db"
    /\ boot.step = 0
    /\ IF TableHasColumn(schema, "invoice_lines", "highlight")
         THEN /\ boot' = [boot EXCEPT !.step = 1]
              /\ UNCHANGED <<schema, db, tx>>
         ELSE IF AlterRaises(schema, "invoice_lines", "highlight")
                THEN /\ boot' = [boot EXCEPT !.at = "raised", !.error = TRUE]
                     /\ UNCHANGED <<schema, db, tx>>
                ELSE /\ schema' = AddColumn(schema, "invoice_lines", "highlight")
                     /\ db' = [db EXCEPT !.invoice_lines =
                                            AddColumnData(@, "highlight", 0)]
                     /\ tx' = db'
                     /\ boot' = [boot EXCEPT !.step = 1]
    /\ UNCHANGED caller

\* one CREATE TABLE IF NOT EXISTS of migrate_db
MigrateDbCreate ==
    /\ boot.at = "migrate_db"
    /\ boot.step \in 1..Len(LedgerTables)
    /\ schema' = CreateTableIfNotExists(schema, LedgerTables[boot.step].table,
                                        LedgerTables[boot.step].columns)
    /\ boot' = [boot EXCEPT !.step = @ + 1]
    /\ UNCHANGED ledger

\* conn.commit() of migrate_db: the routine has run once more
MigrateDbCommit ==
    /\ boot.at = "migrate_db"
    /\ boot.step > Len(LedgerTables)
    /\ boot' = [boot EXCEPT !.at = "done", !.step = 1, !.runs = @ + 1,
                            !.first = IF boot.runs = 0 THEN schema ELSE @]
    /\ UNCHANGED <<schema, ledger>>

\* the next script run calls init_all again
Rerun ==
    /\ boot.at = "done"
    /\ boot.runs < MaxRuns
    /\ boot' = [boot EXCEPT !.at = "init_db_schema", !.step = 1]
    /\ UNCHANGED <<schema, ledger>>

SchemaNext ==
    \/ InitDbSchema
    \/ InitDbSchemaCommit
    \/ MigrateDbHighlight
    \/ MigrateDbCreate
    \/ MigrateDbCommit
    \/ Rerun

SchemaSpec == SchemaInit /\ [][SchemaNext]_vars

---------------------------------------------------------------------------
(* The script run (AppSpec).  Streamlit runs the script from its first     *)
(* line for the first page load and again for every button pressed: the    *)
(* run calls init_all (init_db_schema, migrate_db, ensure_seed_items) and  *)
(* then reaches the handler of the pressed button.  st.session_state       *)
(* (authed) outlives the run.  Both variants are handlers of one session   *)
(* here; the start-up of inventory_billing_app.py (init_db and             *)
(* ensure_seed_items, lines 264-265) issues a subset of the statements of  *)
(* init_all.                                                               *)

\* number of script runs of a session
MaxScriptRuns == 3

\* lines 22-23: the configured credentials (the defaults of the environment)
ADMIN_USER == "admin"
ADMIN_PASS == "admin123"

\* what the editors and inputs of the pages may hold when a button is pressed
EditorPersons == {"P", " "}
EditorLines ==
    {[item |-> " A ", unit_price |-> 500, qty |-> 2, highlight |-> TRUE],
     [item |-> "A",   unit_price |-> 500, qty |-> 0, highlight |-> FALSE],
     [item |-> "",    unit_price |-> 500, qty |-> 2, highlight |-> FALSE]}
EditorColls == {[method |-> "Card", amount |-> 999], [method |-> "Cash", amount |-> -1000]}
EditorDues ==
    {[shop_no |-> " S1 ", amount |-> 1000], [shop_no |-> "", amount |-> 1000],
     [shop_no |-> " S1 ", amount |-> -1000]}
EditorItems == {" A ", "B", " "}
EditorRates == {500, 700}
EditorMovements == {<<r>> : r \in {m \in MovementInputs : m.item \in {"", "A"}}}
LoginUsers == {ADMIN_USER, "guest"}
LoginPasswords == {ADMIN_PASS, ""}
AdminTables == {"invoices", "invoice_lines", "invoice_collections", "invoice_dues",
                "inventory_movements"}
AdminIds == {0, 1}

Requests ==
    {[op |-> "save_invoice", form |-> f] :
        f \in [person_name : EditorPersons,
               lines : SeqsUpTo(EditorLines, MaxLines),
               collections : SeqsUpTo(EditorColls, MaxColls),
               dues : SeqsUpTo(EditorDues, MaxDues)]}
    \cup {[op |-> "save_invoice_legacy", form |-> f] :
        f \in [person_name : EditorPersons,
               lines : SeqsUpTo(EditorLines, MaxLines),
               collection_amount : {0, 999}]}
    \cup {[op |-> "save_item", form |-> f] : f \in [item : EditorItems, rate : EditorRates]}
    \cup {[op |-> "save_movements", form |-> f] : f \in [rows : EditorMovements]}
    \cup {[op |-> "login", form |-> f] : f \in [user : LoginUsers, password : LoginPasswords]}
    \cup {[op |-> "delete", form |-> f] : f \in [table : AdminTables, id : AdminIds]}

\* the first page load of a session: no button pressed, init_all about to
\* run on no file or on the file of an earlier session
AppInit ==
    /\ \E file \in {f \in StartFiles : f.schema = NoSchema \/ f.data = UsedDb} :
          schema = file.schema /\ db = file.data
    /\ tx = db
    /\ pc = "idle"
    /\ idx = 1
    /\ call = NoCall
    /\ ret = NoRet
    /\ pre = db
    /\ calls = 0
    /\ view = NoView
    /\ issued = {}
    /\ admin = NoAdmin
    /\ boot = NoBoot(schema)
    /\ authed = FALSE
    /\ request = NoRequest

\* a button is pressed on the page that the last run drew (or on the error
\* page of a run that raised): the script runs again from its first line
ScriptRun ==
    /\ pc = "idle"
    /\ request = NoRequest
    /\ boot.at \in {"page", "raised"}
    /\ boot.runs < MaxScriptRuns
    /\ boot' = [boot EXCEPT !.at = "init_db_schema", !.step = 1, !.error = FALSE]
    /\ UNCHANGED <<schema, ledger>>

\* a statement of init_db_schema or migrate_db raises (the file cannot be
\* written, the database is locked): the exception ends the script run
DdlFails ==
    /\ boot.at \in {"init_db_schema", "migrate_db"}
    /\ boot' = [boot EXCEPT !.at = "raised", !.step = 1, !.error = TRUE]
    /\ UNCHANGED <<schema, ledger>>

\* ON CONFLICT(item) DO UPDATE SET rate = excluded.rate, for every given item
UpsertItems(items, given) ==
    [n \in DOMAIN items \cup DOMAIN given |->
       IF n \in DOMAIN given THEN given[n] ELSE items[n]]

\* n = COUNT(*) FROM items; if n == 0 and os.path.exists(XLSM_PATH)
\* (alternative: the workbook imported at every start-up)
SeedsAlways(d, found) == found
Seeds(d, found) == DOMAIN d.items = {} /\ found

\* ensure_seed_items, the last call of init_all; the script goes on to the page
EnsureSeedItems ==
    /\ boot.at = "done"
    /\ \E found \in BOOLEAN :
          db' = IF Seeds(db, found)
                  THEN [db EXCEPT !.items = UpsertItems(@, SeededItems)]
                  ELSE db
    /\ tx' = db'
    /\ boot' = [boot EXCEPT !.at = "ready"]
    /\ UNCHANGED <<schema, caller>>

\* init_all has returned in this script run
\* (alternative: the script goes on to the page after a failed start-up too)
StartedAnyway == boot.at \in {"ready", "raised"}
Started == boot.at = "ready"

\* line 376 on: the script reaches the code of the page with the button
\* that was pressed for this run and the form as it was entered.  What
\* init_all does is the same for every button, so the button is drawn here.
Dispatch ==
    /\ pc = "idle"
    /\ Started
    /\ \E r \in Requests : request' = r
    /\ boot' = [boot EXCEPT !.at = "page"]
    /\ UNCHANGED <<db, tx, pc, idx, call, ret, pre, calls, view, issued, admin,
                   schema, authed>>

\* the script is in the code of the page
OnPage == boot.at = "page"

\* the handler reports an error (st.error) and calls nothing
Refuse ==
    /\ pc' = "returned"
    /\ ret' = [NoRet EXCEPT !.status = "refused"]
    /\ call' = NoCall
    /\ pre' = db
    /\ UNCHANGED <<db, tx, idx, view, calls, ext>>

\* if not person_name.strip(): st.error("Person Name is required.")
\* (alternative: no check of the name)
PersonGivenAlways(person_name) == TRUE
PersonGiven(person_name) == StrStrip(person_name) # ""

\* the filters of the Save Invoice handlers
KeepsLine(r) == StrStrip(r.item) # "" /\ r.qty # 0
\* (alternative: every collection is passed on)
KeepsCollAny(r) == TRUE
KeepsColl(r) == r.amount > 0
KeepsDue(r) == r.amount > 0 /\ StrStrip(r.shop_no) # ""

\* the entries the handlers append
FormLine(r) == [r EXCEPT !.item = StrStrip(r.item)]
FormLineLegacy(r) == [r EXCEPT !.item = StrStrip(r.item), !.highlight = FALSE]
FormColl(r) == [r EXCEPT !.method = CoerceMethod(r.method)]
FormDue(r) == [r EXCEPT !.shop_no = StrStrip(r.shop_no)]

KeptLines(rows) ==
    LET kept == SelectSeq(rows, KeepsLine)
    IN  [i \in 1..Len(kept) |-> FormLine(kept[i])]
KeptLinesLegacy(rows) ==
    LET kept == SelectSeq(rows, KeepsLine)
    IN  [i \in 1..Len(kept) |-> FormLineLegacy(kept[i])]
KeptColls(rows) ==
    LET kept == SelectSeq(rows, KeepsColl)
    IN  [i \in 1..Len(kept) |-> FormColl(kept[i])]
KeptDues(rows) ==
    LET kept == SelectSeq(rows, KeepsDue)
    IN  [i \in 1..Len(kept) |-> FormDue(kept[i])]

\* the Save Invoice button of inventory_billing_app1.py, lines 471-503
SaveInvoice ==
    /\ pc = "idle"
    /\ OnPage
    /\ request.op = "save_invoice"
    /\ IF ~PersonGiven(request.form.person_name)
         THEN Refuse
         ELSE /\ calls' = calls + 1
              /\ \/ RejectInvoice(request.form.person_name,
                                  KeptLines(request.form.lines),
                                  KeptColls(request.form.collections),
                                  KeptDues(request.form.dues))
                 \/ BeginInvoice(request.form.person_name,
                                 KeptLines(request.form.lines),
                                 KeptColls(request.form.collections),
                                 KeptDues(request.form.dues))

\* the Save Invoice button of inventory_billing_app.py, lines 327-346
SaveInvoiceLegacy ==
    /\ pc = "idle"
    /\ OnPage
    /\ request.op = "save_invoice_legacy"
    /\ IF ~PersonGiven(request.form.person_name)
         THEN Refuse
         ELSE IF KeptLinesLegacy(request.form.lines) = <<>>
                THEN Refuse
                ELSE /\ calls' = calls + 1
                     /\ BeginInvoiceLegacy(request.form.person_name,
                                           KeptLinesLegacy(request.form.lines),
                                           request.form.collection_amount)

\* upsert_item: INSERT ... ON CONFLICT(item) DO UPDATE SET rate = excluded.rate
\* with (item.strip(), float(rate))
UpsertItem(d, item, rate) ==
    [d EXCEPT !.items = UpsertItems(@, [n \in {StrStrip(item)} |-> rate])]

\* the Save Item button of the Master Data page, lines 716-722
SaveItem ==
    /\ pc = "idle"
    /\ OnPage
    /\ request.op = "save_item"
    /\ IF StrStrip(request.form.item) = ""
         THEN Refuse
         ELSE Done("upsert_item", 0, request.form.item, <<request.form>>, "stored",
                   UpsertItem(db, request.form.item, request.form.rate))

\* the Save Movements button of the Inventory page, lines 560-573
SaveMovements ==
    /\ pc = "idle"
    /\ OnPage
    /\ request.op = "save_movements"
    /\ LET rows == SelectSeq(request.form.rows, LAMBDA r : StrStrip(r.item) # "")
           run  == RunMovements(db, rows)
       IN  IF rows = <<>>
             THEN Refuse
             ELSE IF run.raised
                    THEN Done("add_inventory_movement", 0, "", rows, "raised",
                              OnException(db, run.data))
                    ELSE Done("add_inventory_movement", 0, "", rows, "stored", run.data)

\* if u == ADMIN_USER and p == ADMIN_PASS
CredentialsMatch(u, p) == u = ADMIN_USER /\ p = ADMIN_PASS

\* the Login button of require_admin_auth, lines 347-363; a session that is
\* authenticated already is not asked again
Login ==
    /\ pc = "idle"
    /\ OnPage
    /\ request.op = "login"
    /\ authed' = (authed \/ CredentialsMatch(request.form.user, request.form.password))
    /\ pc' = "returned"
    /\ ret' = [NoRet EXCEPT !.status = IF authed' THEN "authed" ELSE "invalid"]
    /\ call' = NoCall
    /\ pre' = db
    /\ UNCHANGED <<db, tx, idx, view, calls, issued, admin, schema, boot, request>>

\* a delete button of the Admin page, lines 750-808: st.stop() unless
\* require_admin_auth() holds
AdminDelete ==
    /\ pc = "idle"
    /\ OnPage
    /\ request.op = "delete"
    /\ IF ~RequireAdminAuth
         THEN Refuse
         ELSE CASE request.form.table = "invoices" -> DeleteInvoiceOf(request.form.id)
                [] request.form.table = "invoice_lines" -> DeleteLineOf(request.form.id)
                [] request.form.table = "invoice_collections" ->
                      DeleteCollectionOf(request.form.id)
                [] request.form.table = "invoice_dues" -> DeleteDueOf(request.form.id)
                [] OTHER -> DeleteMovementOf(request.form.id)

AppNext ==
    \/ ScriptRun
    \/ Dispatch
    \/ InitDbSchema
    \/ InitDbSchemaCommit
    \/ MigrateDbHighlight
    \/ MigrateDbCreate
    \/ MigrateDbCommit
    \/ DdlFails
    \/ EnsureSeedItems
    \/ SaveInvoice
    \/ SaveInvoiceLegacy
    \/ SaveItem
    \/ SaveMovements
    \/ Login
    \/ AdminDelete
    \/ InsertLine
    \/ LineFails
    \/ LinesDone
    \/ InsertCollection
    \/ CollectionsDone
    \/ InsertDue
    \/ DuesDone
    \/ InsertAggregate
    \/ SkipAggregate
    \/ Commit
    \/ Return

AppSpec == AppInit /\ [][AppNext]_vars

---------------------------------------------------------------------------
(* Reference computations the claims are stated with.                      *)

Range(s) == {s[i] : i \in 1..Len(s)}

RECURSIVE RefLineSum(_)
RefLineSum(ls) ==
    IF ls = <<>> THEN 0
    ELSE Head(ls).unit_price * Head(ls).qty + RefLineSum(Tail(ls))

RECURSIVE RefAmountSum(_)
RefAmountSum(es) ==
    IF es = <<>> THEN 0 ELSE Head(es).amount + RefAmountSum(Tail(es))

RECURSIVE RefPositiveSum(_)
RefPositiveSum(es) ==
    IF es = <<>> THEN 0
    ELSE (IF Head(es).amount > 0 THEN Head(es).amount ELSE 0) + RefPositiveSum(Tail(es))

RefDiff(c) ==
    Abs(RefLineSum(c.lines) - (RefAmountSum(c.collections) + RefAmountSum(c.dues)))

RowsOf(rows, inv_id) == SelectSeq(rows, LAMBDA r : r.invoice_id = inv_id)

NotesOf(rows, inv_id) == SelectSeq(rows, LAMBDA r : r.note.invoice = inv_id)

HeaderOf(d, inv_id) == SelectSeq(d.invoices, LAMBDA r : r.id = inv_id)

Strip(r) == [f \in DOMAIN r \ {"id"} |-> r[f]]

StripAll(rows) == [i \in 1..Len(rows) |-> Strip(rows[i])]

\* positions of the submitted lines that name an item
ItemPositions(c) == {i \in 1..Len(c.lines) : c.lines[i].item # ""}

RefLineRows(c, positions) ==
    {[invoice_id |-> c.inv_id, line_no |-> i, item |-> c.lines[i].item,
      unit_price |-> c.lines[i].unit_price, qty |-> c.lines[i].qty,
      highlight |-> IF c.lines[i].highlight THEN 1 ELSE 0] : i \in positions}

RefCollRows(c) ==
    LET kept == SelectSeq(c.collections, LAMBDA e : e.amount > 0)
    IN  [i \in 1..Len(kept) |->
           [invoice_id |-> c.inv_id,
            method |-> IF kept[i].method \in {"Cash", "UPI"} THEN kept[i].method ELSE "Cash",
            amount |-> kept[i].amount]]

RefDueRows(c) ==
    LET kept == SelectSeq(c.dues, LAMBDA e : e.amount > 0)
    IN  [i \in 1..Len(kept) |->
           [invoice_id |-> c.inv_id, shop_no |-> StrStrip(kept[i].shop_no),
            amount |-> kept[i].amount]]

Returned(status) == pc = "returned" /\ ret.status = status

Saved == Returned("saved")

SavedValidated == Saved /\ call.variant = "validated"

InFlight == pc \notin {"idle", "returned"}

\* the rows of every table other than those the last call added
OthersUntouched ==
    /\ db.items = pre.items
    /\ \A t \in Tables : SubSeq(db[t], 1, Len(pre[t])) = pre[t]

---------------------------------------------------------------------------
(* The claims.                                                             *)

\* C1: a validated create_invoice whose figures differ by 0.005 or more
\* never starts writing: it returns (False, msg, -1), msg carries the three
\* figures formatted to two decimals, and every table is as before the call.
C1_RejectWritesNothing ==
    (call.variant = "validated" /\ RefDiff(call) >= Tolerance) =>
        /\ Returned("rejected")
        /\ ~ret.ok
        /\ ret.inv_id = -1
        /\ ret.msg = [total |-> Fmt2(RefLineSum(call.lines)),
                      collections |-> Fmt2(RefAmountSum(call.collections)),
                      dues |-> Fmt2(RefAmountSum(call.dues))]
        /\ db = pre
        /\ tx = pre

\* the rejected call sits exactly on the tolerance and would have had a line,
\* a collection and a due to store
C1_Witness ==
    /\ Returned("rejected")
    /\ RefDiff(call) = Tolerance
    /\ \E i \in 1..Len(call.lines) : ItemExists(db, call.lines[i].item)
    /\ \E i \in 1..Len(call.collections) : call.collections[i].amount > 0
    /\ \E i \in 1..Len(call.dues) : call.dues[i].amount > 0

\* C2 as stated: every reconciling validated call passes the check, and the
\* invoice row it stores has collection_amount + due_amount = total_amount
\* exactly.
C2_Original ==
    (call.variant = "validated" /\ RefDiff(call) < Tolerance) =>
        /\ ret.status # "rejected"
        /\ Saved =>
             \A i \in 1..Len(db.invoices) :
                db.invoices[i].id = ret.inv_id =>
                   db.invoices[i].collection_amount + db.invoices[i].due_amount
                       = db.invoices[i].total_amount

\* C2 amended: a reconciling validated call is never rejected; it either
\* raises and stores nothing, or it is saved and its one invoice row holds
\* the three figures, which agree within the tolerance.
C2_StoredWithinTolerance ==
    (call.variant = "validated" /\ RefDiff(call) < Tolerance) =>
        /\ ret.status # "rejected"
        /\ Returned("raised") => db = pre
        /\ Saved =>
             /\ Len(HeaderOf(db, ret.inv_id)) = 1
             /\ LET h == HeaderOf(db, ret.inv_id)[1]
                IN  /\ h.total_amount = RefLineSum(call.lines)
                    /\ h.collection_amount = RefAmountSum(call.collections)
                    /\ h.due_amount = RefAmountSum(call.dues)
                    /\ Abs(h.total_amount - (h.collection_amount + h.due_amount))
                          < Tolerance

\* a saved invoice whose stored figures do not add up exactly
C2_Witness ==
    /\ SavedValidated
    /\ \E i \in 1..Len(db.invoices) :
         /\ db.invoices[i].id = ret.inv_id
         /\ db.invoices[i].collection_amount + db.invoices[i].due_amount
               # db.invoices[i].total_amount

\* C3: create_invoice is all or nothing, in both variants: a call that
\* raises leaves the committed database as it was at entry, and a call that
\* returns normally has committed the invoice row together with every line,
\* collection, due and daily aggregate row it inserted, and nothing else
\* changed.
C3_AllOrNothing ==
    /\ Returned("raised") => db = pre
    /\ Saved =>
         /\ Len(HeaderOf(db, ret.inv_id)) = 1
         /\ Len(HeaderOf(pre, ret.inv_id)) = 0
         /\ Range(StripAll(RowsOf(db.invoice_lines, ret.inv_id)))
               = RefLineRows(call, ItemPositions(call))
         /\ Len(RowsOf(db.invoice_lines, ret.inv_id)) = Cardinality(ItemPositions(call))
         /\ StripAll(RowsOf(db.invoice_collections, ret.inv_id)) = RefCollRows(call)
         /\ StripAll(RowsOf(db.invoice_dues, ret.inv_id)) = RefDueRows(call)
         /\ StripAll(NotesOf(db.collections, ret.inv_id))
               = IF call.coll_total # 0
                   THEN <<[amount |-> call.coll_total,
                           note |-> [invoice |-> ret.inv_id,
                                     person |-> call.person_name]]>>
                   ELSE <<>>
         /\ OthersUntouched

\* a due without shop_no raised after the invoice row, a line and a
\* collection had been inserted
C3_Witness ==
    /\ Returned("raised")
    /\ call.variant = "validated"
    /\ ItemPositions(call) # {}
    /\ \A i \in ItemPositions(call) : ItemExists(pre, call.lines[i].item)
    /\ \E i \in 1..Len(call.collections) : call.collections[i].amount > 0
    /\ \E i \in 1..Len(call.dues) :
         call.dues[i].amount > 0 /\ call.dues[i].shop_no = NoValue
    /\ db = pre

\* C4: what a reader on its own connection sees, at whatever point of a
\* create_invoice it reads, holds no row of an invoice still being written
\* or rolled back: every child row it sees belongs to an invoice row it
\* sees, and every invoice row it sees is committed with exactly the child
\* rows the reader sees for it.
C4_ReaderSeesWholeInvoices ==
    /\ \A t \in {"invoice_lines", "invoice_collections", "invoice_dues"} :
         \A r \in Range(view.data[t]) :
            \E h \in Range(view.data.invoices) : h.id = r.invoice_id
    /\ \A h \in Range(view.data.invoices) :
         /\ ~(InFlight /\ call.inv_id = h.id)
         /\ ~(Returned("raised") /\ call.inv_id = h.id)
         /\ h \in Range(db.invoices)
         /\ \A t \in {"invoice_lines", "invoice_collections", "invoice_dues"} :
              RowsOf(view.data[t], h.id) = RowsOf(db[t], h.id)
         /\ NotesOf(view.data.collections, h.id) = NotesOf(db.collections, h.id)

\* the reader read while the row, a line and a collection of a second
\* invoice were written but not committed: it saw the earlier invoice with
\* its children and nothing of the second
C4_Witness ==
    /\ pc = "dues"
    /\ view.during
    /\ Len(tx.invoices) > Len(db.invoices)
    /\ RowsOf(tx.invoice_lines, call.inv_id) # <<>>
    /\ RowsOf(tx.invoice_collections, call.inv_id) # <<>>
    /\ view.data = db
    /\ Len(view.data.invoices) = 1
    /\ RowsOf(view.data.invoice_lines, view.data.invoices[1].id) # <<>>
    /\ RowsOf(view.data.invoice_lines, call.inv_id) = <<>>

\* C5: in both variants the total that the check uses, that the message
\* reports and that is stored as total_amount is the sum of unit_price * qty
\* over all submitted lines, those without an item included.
C5_TotalOverAllLines ==
    call.variant # "none" =>
        /\ call.total = RefLineSum(call.lines)
        /\ (pc = "returned" /\ call.variant = "validated") =>
              (ret.status = "rejected" <=> RefDiff(call) >= Tolerance)
        /\ Returned("rejected") => ret.msg.total = Fmt2(RefLineSum(call.lines))
        /\ Saved =>
              /\ Len(HeaderOf(db, ret.inv_id)) = 1
              /\ HeaderOf(db, ret.inv_id)[1].total_amount = RefLineSum(call.lines)

\* a saved invoice one of whose lines had no item but a non-zero amount
C5_Witness ==
    /\ Saved
    /\ \E i \in 1..Len(call.lines) :
         /\ call.lines[i].item = ""
         /\ call.lines[i].unit_price * call.lines[i].qty # 0
    /\ ItemPositions(call) # {}
    /\ HeaderOf(db, ret.inv_id)[1].total_amount = RefLineSum(call.lines)

\* C6 as stated: the collection and due figures stored by a saved validated
\* call are the sums of the strictly positive amounts only.
C6_PositiveAmountsOnly ==
    SavedValidated =>
        /\ HeaderOf(db, ret.inv_id)[1].collection_amount
              = RefPositiveSum(call.collections)
        /\ HeaderOf(db, ret.inv_id)[1].due_amount = RefPositiveSum(call.dues)

\* C7 as stated: the invoice_collections rows of a saved validated invoice
\* add up to its collection_amount.
C7_CollectionRowsAddUp ==
    SavedValidated =>
        RefAmountSum(RowsOf(db.invoice_collections, ret.inv_id))
            = HeaderOf(db, ret.inv_id)[1].collection_amount

\* C8 as stated: the invoice_dues rows of a saved validated invoice add up
\* to its due_amount.
C8_DueRowsAddUp ==
    SavedValidated =>
        RefAmountSum(RowsOf(db.invoice_dues, ret.inv_id))
            = HeaderOf(db, ret.inv_id)[1].due_amount

\* C9 as stated, for the validated variant: a saved call has stored one line
\* row for each submitted line with an item and a non-zero quantity, and none
\* for any other line.
C9_Original ==
    SavedValidated =>
        LET kept == {i \in 1..Len(call.lines) :
                       call.lines[i].item # "" /\ call.lines[i].qty # 0}
        IN  /\ Range(StripAll(RowsOf(db.invoice_lines, ret.inv_id)))
                  = RefLineRows(call, kept)
            /\ Len(RowsOf(db.invoice_lines, ret.inv_id)) = Cardinality(kept)

\* C9 amended: a saved call has stored one line row for each submitted line
\* that names an item, whatever its quantity, and none for a line without
\* an item.
C9_OneRowPerItemLine ==
    Saved =>
        /\ Range(StripAll(RowsOf(db.invoice_lines, ret.inv_id)))
              = RefLineRows(call, ItemPositions(call))
        /\ Len(RowsOf(db.invoice_lines, ret.inv_id)) = Cardinality(ItemPositions(call))

\* a saved invoice with a stored line of quantity zero and a dropped line
C9_Witness ==
    /\ Saved
    /\ \E r \in Range(RowsOf(db.invoice_lines, ret.inv_id)) : r.qty = 0
    /\ \E i \in 1..Len(call.lines) : call.lines[i].item = ""

\* C10 as stated, for the validated variant: the first stored line of a
\* saved invoice has line_no 1 and the line_no values increase strictly in
\* submission order.
C10_Original ==
    SavedValidated =>
        LET rows == RowsOf(db.invoice_lines, ret.inv_id)
        IN  /\ rows # <<>> => rows[1].line_no = 1
            /\ \A i, j \in 1..Len(rows) : i < j => rows[i].line_no < rows[j].line_no

\* C10 amended: the line_no of a stored line is the 1-based position of the
\* line in the submitted sequence, so the values are distinct and increase
\* strictly in submission order, with a gap wherever a line was dropped; the
\* first stored line has line_no 1 exactly when the first submitted line
\* names an item.
C10_LineNoIsPosition ==
    Saved =>
        LET rows == RowsOf(db.invoice_lines, ret.inv_id)
        IN  /\ \A i \in 1..Len(rows) :
                 /\ rows[i].line_no \in ItemPositions(call)
                 /\ rows[i].item = call.lines[rows[i].line_no].item
                 /\ rows[i].unit_price = call.lines[rows[i].line_no].unit_price
                 /\ rows[i].qty = call.lines[rows[i].line_no].qty
            /\ \A i, j \in 1..Len(rows) : i < j => rows[i].line_no < rows[j].line_no
            /\ rows # <<>> => (rows[1].line_no = 1 <=> call.lines[1].item # "")

\* a saved invoice whose first submitted line was dropped: its only stored
\* line carries line_no 2
C10_Witness ==
    /\ Saved
    /\ Len(call.lines) > 1
    /\ call.lines[1].item = ""
    /\ RowsOf(db.invoice_lines, ret.inv_id) # <<>>
    /\ RowsOf(db.invoice_lines, ret.inv_id)[1].line_no = 2

\* C11: a collection whose method is neither Cash nor UPI never makes the
\* validated create_invoice fail: every call that raises has a line naming
\* an unknown item or a positive due without shop_no; a saved call has
\* stored such a collection, when its amount is positive, with method Cash;
\* and every invoice_collections row, committed or in the open transaction,
\* has method Cash or UPI.
C11_MethodCoerced ==
    /\ \A d \in {db, tx, view.data} :
         \A r \in Range(d.invoice_collections) : r.method \in {"Cash", "UPI"}
    /\ (Returned("raised") /\ call.variant = "validated") =>
         \/ \E i \in 1..Len(call.lines) :
              call.lines[i].item # "" /\ call.lines[i].item \notin DOMAIN pre.items
         \/ \E i \in 1..Len(call.dues) :
              call.dues[i].amount > 0 /\ call.dues[i].shop_no = NoValue
    /\ SavedValidated =>
         LET kept == SelectSeq(call.collections, LAMBDA c : c.amount > 0)
             rows == RowsOf(db.invoice_collections, ret.inv_id)
         IN  /\ Len(rows) = Len(kept)
             /\ \A i \in 1..Len(kept) :
                  kept[i].method \notin {"Cash", "UPI"} =>
                     rows[i].method = "Cash" /\ rows[i].amount = kept[i].amount

\* a saved invoice whose collection was submitted with method Card
C11_Witness ==
    /\ SavedValidated
    /\ \E i \in 1..Len(call.collections) :
         call.collections[i].method = "Card" /\ call.collections[i].amount > 0
    /\ \E r \in Range(RowsOf(db.invoice_collections, ret.inv_id)) : r.method = "Cash"

\* C12: a saved validated call has added one invoice_collections row for
\* each submitted collection with a positive amount, in submission order,
\* and none for the others, so every invoice_collections row has a positive
\* amount.
C12_OneRowPerPositiveCollection ==
    /\ \A d \in {db, tx} : \A r \in Range(d.invoice_collections) : r.amount > 0
    /\ SavedValidated =>
         LET positive == {i \in 1..Len(call.collections) : call.collections[i].amount > 0}
             kept     == SelectSeq(call.collections, LAMBDA c : c.amount > 0)
             rows     == RowsOf(db.invoice_collections, ret.inv_id)
         IN  /\ Len(rows) = Cardinality(positive)
             /\ [i \in 1..Len(rows) |-> rows[i].amount]
                   = [i \in 1..Len(kept) |-> kept[i].amount]
             /\ Len(db.invoice_collections)
                   = Len(pre.invoice_collections) + Cardinality(positive)

\* a saved invoice whose submitted collection had a negative amount and
\* left no row
C12_Witness ==
    /\ SavedValidated
    /\ \E i \in 1..Len(call.collections) : call.collections[i].amount < 0
    /\ RowsOf(db.invoice_collections, ret.inv_id) = <<>>
    /\ db.invoice_collections = pre.invoice_collections

\* C13 as stated: a saved validated call has added one invoice_dues row for
\* each submitted due with a positive amount and a non-empty trimmed
\* shop_no, and none for any other due, so every invoice_dues row has a
\* positive amount and a non-empty shop_no.
C13_Original ==
    /\ \A r \in Range(db.invoice_dues) : r.amount > 0 /\ r.shop_no # ""
    /\ SavedValidated =>
         LET kept == {i \in 1..Len(call.dues) :
                        /\ call.dues[i].amount > 0
                        /\ call.dues[i].shop_no \notin {"", " ", NoValue}}
         IN  Len(RowsOf(db.invoice_dues, ret.inv_id)) = Cardinality(kept)

\* C13 amended: a saved validated call has added one invoice_dues row for
\* each submitted due with a positive amount, whatever its shop_no, in
\* submission order and with the shop_no trimmed (an empty shop_no is
\* stored as the empty text), and none for a due with a non-positive
\* amount; a call with a positive due that has no shop_no at all raises.
\* Every invoice_dues row has a positive amount.
C13_OneRowPerPositiveDue ==
    /\ \A d \in {db, tx} : \A r \in Range(d.invoice_dues) : r.amount > 0
    /\ (call.variant = "validated" /\ pc = "returned" /\ ret.status # "rejected"
          /\ \E i \in 1..Len(call.dues) :
                call.dues[i].amount > 0 /\ call.dues[i].shop_no = NoValue)
         => Returned("raised")
    /\ SavedValidated =>
         LET kept == SelectSeq(call.dues, LAMBDA e : e.amount > 0)
             rows == RowsOf(db.invoice_dues, ret.inv_id)
         IN  /\ Len(rows) = Len(kept)
             /\ \A i \in 1..Len(kept) :
                  /\ rows[i].amount = kept[i].amount
                  /\ rows[i].shop_no
                        = IF kept[i].shop_no = " S1 " THEN "S1" ELSE kept[i].shop_no
             /\ Len(db.invoice_dues) = Len(pre.invoice_dues) + Len(kept)

\* a saved invoice with a due row whose shop_no is empty
C13_Witness ==
    /\ SavedValidated
    /\ \E i \in 1..Len(call.dues) :
         call.dues[i].amount > 0 /\ call.dues[i].shop_no = ""
    /\ \E r \in Range(RowsOf(db.invoice_dues, ret.inv_id)) :
         r.shop_no = "" /\ r.amount > 0

\* C14: in both variants a saved call has added to the collections table
\* exactly one row, holding the collection total of the invoice and a note
\* that names the new invoice id and the person name as submitted, when the
\* collection total is not zero, and has left the table as it was when the
\* collection total is zero.
C14_AggregateIffNonZero ==
    Saved =>
        LET h     == HeaderOf(db, ret.inv_id)[1]
            added == SubSeq(db.collections, Len(pre.collections) + 1,
                            Len(db.collections))
        IN  /\ SubSeq(db.collections, 1, Len(pre.collections)) = pre.collections
            /\ h.collection_amount # 0 =>
                 /\ Len(added) = 1
                 /\ added[1].amount = h.collection_amount
                 /\ added[1].note.invoice = ret.inv_id
                 /\ added[1].note.person = call.person_name
            /\ h.collection_amount = 0 => db.collections = pre.collections

\* a saved invoice with a negative collection total and its one aggregate
\* row, in a database that held an aggregate row before
C14_Witness ==
    /\ Saved
    /\ call.coll_total < 0
    /\ pre.collections # <<>>
    /\ Len(db.collections) = Len(pre.collections) + 1
    /\ db.collections[Len(db.collections)].amount = call.coll_total
    /\ db.collections[Len(db.collections)].note.person = " Q "

---------------------------------------------------------------------------
(* The claims about a session of several operations, checked under         *)
(* OpsSpec.                                                                *)

\* C15: a saved create_invoice returns the id of the invoice row it has
\* just inserted, and that id was never returned by an earlier saved call
\* of the session nor is it the id of an invoice present at entry, whatever
\* invoices were deleted in between; a rejected call returns -1.
C15_FreshInvoiceId ==
    /\ Returned("rejected") => (ret.inv_id = -1 /\ ~ret.ok)
    /\ Saved =>
         /\ ret.ok
         /\ ret.inv_id > 0
         /\ ret.inv_id \notin issued
         /\ Len(HeaderOf(pre, ret.inv_id)) = 0
         /\ Len(HeaderOf(db, ret.inv_id)) = 1
         /\ db.invoices[Len(db.invoices)].id = ret.inv_id
         /\ db.invoices[Len(db.invoices)].total_amount = RefLineSum(call.lines)
         /\ \A k \in issued : k < ret.inv_id

\* a saved call made after the invoice of the earlier saved call, the one
\* with the highest id, was deleted: the table holds the new invoice only
C15_Witness ==
    /\ Saved
    /\ issued # {}
    /\ \A k \in issued : HeaderOf(db, k) = <<>>
    /\ Len(db.invoices) = 1
    /\ db.invoices[1].id = ret.inv_id

ChildTables == {"invoice_lines", "invoice_collections", "invoice_dues"}

\* the table a delete button of the Admin page works on
TableOf(op) ==
    CASE op = "delete_line"       -> "invoice_lines"
      [] op = "delete_collection" -> "invoice_collections"
      [] op = "delete_due"        -> "invoice_dues"
      [] OTHER                    -> "none"

\* C16 as stated: while the row of a committed invoice remains, the row and
\* its line, collection and due rows stay as they are, in every step of
\* every operation.
C16_Original ==
    [][\A h \in Range(db.invoices) :
          HeaderOf(db', h.id) # <<>> =>
             /\ HeaderOf(db', h.id) = <<h>>
             /\ \A t \in ChildTables : RowsOf(db'[t], h.id) = RowsOf(db[t], h.id)]_vars

\* C16 amended: a step of any operation leaves the row and the child rows
\* of every committed invoice as they are, except the Delete Invoice
\* button given its id, which removes the row and all its children, and the
\* Delete Line, Delete Collection and Delete Due buttons, which remove the
\* one child row with the given id and leave the invoice row and its other
\* children in place.
C16_OnlyAdminDeletes ==
    [][\A h \in Range(db.invoices) :
          \/ /\ HeaderOf(db', h.id) = <<h>>
             /\ \A t \in ChildTables : RowsOf(db'[t], h.id) = RowsOf(db[t], h.id)
          \/ /\ admin'.op = "delete_invoice"
             /\ admin'.id = h.id
             /\ HeaderOf(db', h.id) = <<>>
             /\ \A t \in ChildTables : RowsOf(db'[t], h.id) = <<>>
          \/ /\ admin'.op \in {"delete_line", "delete_collection", "delete_due"}
             /\ HeaderOf(db', h.id) = <<h>>
             /\ \A t \in ChildTables :
                  RowsOf(db'[t], h.id)
                     = SelectSeq(RowsOf(db[t], h.id),
                                 LAMBDA r : ~(t = TableOf(admin'.op) /\ r.id = admin'.id))]_vars

\* after Delete Line an invoice with a positive total remains with its
\* collection row and without the line it was created with
C16_Witness ==
    /\ pc = "returned"
    /\ admin.op = "delete_line"
    /\ \E h \in Range(db.invoices) :
         /\ h.total_amount > 0
         /\ RowsOf(pre.invoice_lines, h.id) # <<>>
         /\ RowsOf(db.invoice_lines, h.id) = <<>>
         /\ RowsOf(db.invoice_collections, h.id) # <<>>

\* C17: when the Delete Invoice handler has run, the invoice row with the
\* given id and every line, collection and due row of that invoice are
\* gone, every other invoice row and every child row of another invoice is
\* in place and unchanged, and if no invoice had the given id the database
\* is as it was.
C17_DeleteInvoiceCascades ==
    (pc = "returned" /\ admin.op = "delete_invoice") =>
        /\ HeaderOf(db, admin.id) = <<>>
        /\ \A t \in ChildTables : RowsOf(db[t], admin.id) = <<>>
        /\ db.invoices = SelectSeq(pre.invoices, LAMBDA h : h.id # admin.id)
        /\ \A t \in ChildTables :
             db[t] = SelectSeq(pre[t], LAMBDA r : r.invoice_id # admin.id)
        /\ \A h \in Range(pre.invoices) :
             h.id # admin.id =>
                /\ HeaderOf(db, h.id) = <<h>>
                /\ \A t \in ChildTables : RowsOf(db[t], h.id) = RowsOf(pre[t], h.id)
        /\ HeaderOf(pre, admin.id) = <<>> => db = pre

\* an invoice with a line and a collection was deleted while another
\* invoice with a line of its own stayed
C17_Witness ==
    /\ pc = "returned"
    /\ admin.op = "delete_invoice"
    /\ HeaderOf(pre, admin.id) # <<>>
    /\ RowsOf(pre.invoice_lines, admin.id) # <<>>
    /\ RowsOf(pre.invoice_collections, admin.id) # <<>>
    /\ RowsOf(db.invoice_lines, admin.id) = <<>>
    /\ \E h \in Range(db.invoices) : RowsOf(db.invoice_lines, h.id) # <<>>

\* C18: a DELETE of an item that an invoice line or an inventory movement
\* refers to raises, and the items, invoice_lines and inventory_movements
\* tables are as before the statement.
C18_ReferencedItemKept ==
    (/\ pc = "returned"
     /\ admin.op = "delete_item"
     /\ \/ \E r \in Range(pre.invoice_lines) : r.item = admin.item
        \/ \E r \in Range(pre.inventory_movements) : r.item = admin.item) =>
        /\ ret.status = "raised"
        /\ db.items = pre.items
        /\ db.invoice_lines = pre.invoice_lines
        /\ db.inventory_movements = pre.inventory_movements
        /\ admin.item \in DOMAIN db.items

\* the item was referred to by an inventory movement and by no invoice line
C18_Witness ==
    /\ pc = "returned"
    /\ admin.op = "delete_item"
    /\ ret.status = "raised"
    /\ \E r \in Range(db.inventory_movements) : r.item = admin.item
    /\ \A r \in Range(db.invoice_lines) : r.item # admin.item
    /\ admin.item \in DOMAIN db.items

\* C19: the item of every invoice_lines row and of every
\* inventory_movements row, committed or in the open transaction, is the
\* key of an items row; a create_invoice with a line naming an item that is
\* not in the items table, and an add_inventory_movement with such a row,
\* do not succeed and leave the database as it was at entry.
C19_ItemsExist ==
    /\ \A d \in {db, tx} :
         /\ \A r \in Range(d.invoice_lines) : r.item \in DOMAIN d.items
         /\ \A r \in Range(d.inventory_movements) : r.item \in DOMAIN d.items
    /\ (/\ pc = "returned"
        /\ call.variant # "none"
        /\ \E i \in 1..Len(call.lines) :
             call.lines[i].item # "" /\ call.lines[i].item \notin DOMAIN pre.items) =>
          /\ ret.status \in {"rejected", "raised"}
          /\ db = pre
    /\ (/\ pc = "returned"
        /\ admin.op = "add_inventory_movement"
        /\ \E i \in 1..Len(admin.rows) :
             admin.rows[i].item # "" /\ admin.rows[i].item \notin DOMAIN pre.items) =>
          /\ ret.status = "raised"
          /\ db = pre

\* Save Movements with a row of a known item followed by a row of an
\* unknown item: the call raised and no movement row was stored
C19_Witness ==
    /\ pc = "returned"
    /\ admin.op = "add_inventory_movement"
    /\ Len(admin.rows) = 2
    /\ admin.rows[1].item \in DOMAIN pre.items
    /\ admin.rows[2].item = "Z"
    /\ ret.status = "raised"
    /\ db.inventory_movements = pre.inventory_movements

\* C24 as stated: every add_inventory_movement appends one row for each
\* input row with a non-empty item.
C24_Original ==
    (pc = "returned" /\ admin.op = "add_inventory_movement") =>
        Len(db.inventory_movements)
          = Len(pre.inventory_movements)
              + Len(SelectSeq(admin.rows, LAMBDA r : r.item # ""))

\* C24: an add_inventory_movement that returns has appended, in input
\* order, one inventory_movements row for each input row with a non-empty
\* item, holding the four figures as given, and none for a row without an
\* item; one that raises (a row names an item that is not in items) leaves
\* the database as it was; the rows that were there before are in place and
\* unchanged; and every stored row has closing_balance = opening_balance +
\* stock_in - stock_out + stock_returning_today and stock_remaining =
\* closing_balance (50, 10, 5, 2 gives 57).
C24_MovementsAppended ==
    /\ \A r \in Range(db.inventory_movements) :
         /\ r.closing_balance = r.opening_balance + r.stock_in - r.stock_out
                                   + r.stock_returning_today
         /\ r.stock_remaining = r.closing_balance
         /\ (r.opening_balance = 50 /\ r.stock_in = 10 /\ r.stock_out = 5
               /\ r.stock_returning_today = 2) => r.closing_balance = 57
    /\ (pc = "returned" /\ admin.op = "add_inventory_movement") =>
         SubSeq(db.inventory_movements, 1, Len(pre.inventory_movements))
            = pre.inventory_movements
    /\ (pc = "returned" /\ admin.op = "add_inventory_movement"
          /\ ret.status = "raised") =>
         /\ db = pre
         /\ \E i \in 1..Len(admin.rows) :
              admin.rows[i].item # "" /\ ~ItemExists(pre, admin.rows[i].item)
    /\ (pc = "returned" /\ admin.op = "add_inventory_movement"
          /\ ret.status = "stored") =>
         LET kept  == SelectSeq(admin.rows, LAMBDA r : r.item # "")
             added == SubSeq(db.inventory_movements,
                             Len(pre.inventory_movements) + 1,
                             Len(db.inventory_movements))
         IN  /\ Len(added) = Len(kept)
             /\ \A i \in 1..Len(kept) :
                  /\ added[i].item = kept[i].item
                  /\ added[i].opening_balance = kept[i].opening_balance
                  /\ added[i].stock_in = kept[i].stock_in
                  /\ added[i].stock_out = kept[i].stock_out
                  /\ added[i].stock_returning_today = kept[i].stock_returning_today

\* Save Movements with a row without an item and a row for a known item,
\* in a database that held a movement row: one row was appended, with
\* closing balance 57
C24_Witness ==
    /\ pc = "returned"
    /\ admin.op = "add_inventory_movement"
    /\ ret.status = "stored"
    /\ Len(admin.rows) = 2
    /\ admin.rows[1].item = ""
    /\ admin.rows[2].item # ""
    /\ pre.inventory_movements # <<>>
    /\ Len(db.inventory_movements) = Len(pre.inventory_movements) + 1
    /\ db.inventory_movements[Len(db.inventory_movements)].closing_balance = 57

\* C30: when the Delete Invoice handler has run, the collections table is
\* as it was: the aggregate row that create_invoice inserted for the
\* deleted invoice is still there.
C30_AggregateOutlivesInvoice ==
    (pc = "returned" /\ admin.op = "delete_invoice") =>
        db.collections = pre.collections

\* an invoice with an aggregate row was deleted with its children, and the
\* aggregate row whose note names it remains
C30_Witness ==
    /\ pc = "returned"
    /\ admin.op = "delete_invoice"
    /\ HeaderOf(pre, admin.id) # <<>>
    /\ HeaderOf(db, admin.id) = <<>>
    /\ RowsOf(pre.invoice_collections, admin.id) # <<>>
    /\ RowsOf(db.invoice_collections, admin.id) = <<>>
    /\ NotesOf(db.collections, admin.id) # <<>>

---------------------------------------------------------------------------
(* The claims about the start-up schema routine, checked under SchemaSpec. *)

\* the tables of a schema and the names of their columns
ColumnSets(s) == [t \in DOMAIN s |-> {s[t][i].name : i \in 1..Len(s[t])}]

\* C20: from a new file, a file of the original variant and a file already
\* current, no statement of the start-up schema routine raises, no table
\* ever has two columns of one name (highlight is added once), and once the
\* routine has run to its end the tables and their columns stay, during and
\* after every later run, what they were at the end of the first run.
C20_MigrationIdempotent ==
    /\ ~boot.error
    /\ boot.at # "raised"
    /\ \A t \in DOMAIN schema :
         \A i, j \in 1..Len(schema[t]) :
            schema[t][i].name = schema[t][j].name => i = j
    /\ boot.runs >= 1 => ColumnSets(schema) = ColumnSets(boot.first)

\* the routine has run a second time to its end on a file of the original
\* variant: highlight is the last column of invoice_lines and the two new
\* tables exist
C20_Witness ==
    /\ boot.at = "done"
    /\ boot.runs >= 2
    /\ boot.start = LegacySchema
    /\ schema["invoice_lines"][Len(schema["invoice_lines"])].name = "highlight"
    /\ {"invoice_collections", "invoice_dues"} \subseteq DOMAIN schema
    /\ ColumnSets(schema) = ColumnSets(CurrentSchema)

\* C21: no statement of the start-up schema routine removes or renames a
\* table or a column (the columns a table had stay its first columns, in
\* order) or changes a value of a row that exists (every table keeps its
\* rows, each with the values it had in the columns it had; the items are
\* as they were); and when the statement adds highlight to invoice_lines,
\* every row of invoice_lines reads highlight = 0 afterwards.
C21_MigrationAdditive ==
    [][ /\ \A t \in DOMAIN schema :
             /\ t \in DOMAIN schema'
             /\ Len(schema'[t]) >= Len(schema[t])
             /\ SubSeq(schema'[t], 1, Len(schema[t])) = schema[t]
        /\ db'.items = db.items
        /\ \A t \in Tables :
             /\ Len(db'[t]) = Len(db[t])
             /\ \A i \in 1..Len(db[t]) :
                  \A f \in DOMAIN db[t][i] :
                     f \in DOMAIN db'[t][i] /\ db'[t][i][f] = db[t][i][f]
        /\ ( /\ ~TableHasColumn(schema, "invoice_lines", "highlight")
             /\ TableHasColumn(schema', "invoice_lines", "highlight") ) =>
               \A i \in 1..Len(db'.invoice_lines) :
                  db'.invoice_lines[i].highlight = 0
      ]_vars

\* the routine has run to its end on a file of the original variant that
\* held an invoice: its line reads highlight = 0, and the invoice, the line
\* and the aggregate row are there with the values they had
C21_Witness ==
    /\ boot.at = "done"
    /\ boot.start = LegacySchema
    /\ pre = LegacyDb
    /\ Len(db.invoice_lines) = 1
    /\ db.invoice_lines[1].highlight = 0
    /\ db.invoice_lines[1].qty = pre.invoice_lines[1].qty
    /\ db.invoices = pre.invoices
    /\ db.collections = pre.collections
    /\ "invoice_dues" \in DOMAIN schema

---------------------------------------------------------------------------
(* The claims about the script run and the handlers of the pages, checked  *)
(* under AppSpec.                                                          *)

\* the names and texts the forms hold, without the blanks around them
Trimmed(s) == IF s = " A " THEN "A" ELSE IF s = " S1 " THEN "S1" ELSE IF s = " " THEN "" ELSE s

StartingUp == boot.at \in {"init_db_schema", "migrate_db", "done"}

SaveRequest == request.op \in {"save_invoice", "save_invoice_legacy"}

DeleteOps == {"delete_invoice", "delete_line", "delete_collection", "delete_due",
              "delete_movement"}

C23_UpsertKeyedByTrimmedName ==
    /\ \A n \in DOMAIN db.items : Trimmed(n) = n
    /\ (pc = "returned" /\ admin.op = "upsert_item") =>
         LET name == Trimmed(admin.item)
             rate == admin.rows[1].rate
         IN  /\ DOMAIN db.items = DOMAIN pre.items \cup {name}
             /\ db.items[name] = rate
             /\ \A n \in DOMAIN pre.items \ {name} : db.items[n] = pre.items[n]
             /\ [db EXCEPT !.items = pre.items] = pre
             /\ UpsertItem(db, admin.item, rate) = db

\* Save Item for " A " with a new rate while items held A and another
\* item: A has the new rate, the other item is as it was
C23_Witness ==
    /\ pc = "returned"
    /\ admin.op = "upsert_item"
    /\ admin.item = " A "
    /\ "A" \in DOMAIN pre.items
    /\ "B" \in DOMAIN pre.items
    /\ db.items["A"] = admin.rows[1].rate
    /\ db.items["A"] # pre.items["A"]
    /\ db.items["B"] = pre.items["B"]
    /\ DOMAIN db.items = {"A", "B"}

\* C25: while the Save Invoice button of either variant is handled with a
\* person name that is empty after trimming, create_invoice is not called
\* and the database does not change; and no invoice is ever stored with an
\* empty person_name.
C25_BlankPersonRefused ==
    [][ /\ (SaveRequest /\ Trimmed(request.form.person_name) = "") =>
             /\ db' = db
             /\ tx' = tx
             /\ calls' = calls
             /\ call' = NoCall
             /\ pc' \in {"idle", "returned"}
             /\ pc' = "returned" => ret'.status = "refused"
        /\ \A r \in Range(db'.invoices) : r.person_name # ""
      ]_vars

\* Save Invoice of the validated variant with a blank person name and a
\* line that would be kept: refused, nothing written
C25_Witness ==
    /\ pc = "returned"
    /\ request.op = "save_invoice"
    /\ request.form.person_name = " "
    /\ Len(request.form.lines) = 1
    /\ request.form.lines[1].item = " A "
    /\ ret.status = "refused"
    /\ db = pre
    /\ call = NoCall

\* C26: when a Save Invoice handler of either variant has run for a form
\* in which no line has an item and a non-zero quantity, it has reported an
\* error and the database is as it was; an invoice it has saved has a line.
C26_NoInvoiceWithoutLines ==
    /\ (SaveRequest /\ pc = "returned"
          /\ \A i \in 1..Len(request.form.lines) :
                Trimmed(request.form.lines[i].item) = "" \/ request.form.lines[i].qty = 0) =>
         /\ ret.status \in {"refused", "rejected"}
         /\ db = pre
    /\ (SaveRequest /\ Saved) => RowsOf(db.invoice_lines, ret.inv_id) # <<>>

\* C27: no step of the start-up (init_db_schema, migrate_db,
\* ensure_seed_items) changes the items table when it holds a row.
C27_SeedOnlyWhenEmpty ==
    [][ (StartingUp /\ DOMAIN db.items # {}) => db'.items = db.items ]_vars

\* a later start-up has run to its end, workbook or not, on a database in
\* which Save Item had given the seeded item A a rate other than the
\* workbook's: A has that rate
C27_Witness ==
    /\ boot.at = "ready"
    /\ boot.runs >= 2
    /\ "A" \in DOMAIN db.items
    /\ db.items["A"] # SeededItems["A"]

\* C28: when the Save Invoice handler of the validated variant has called
\* create_invoice, the totals that are reconciled are those of the entries
\* of the form that the handler keeps (lines with an item and a non-zero
\* quantity, collections with amount > 0, dues with amount > 0 and a shop);
\* and an invoice it has saved stores as total_amount the sum of
\* unit_price * qty of its invoice_lines rows, as collection_amount the sum
\* of its invoice_collections rows and as due_amount the sum of its
\* invoice_dues rows.
C28_StoredTotalsMatchRows ==
    /\ (request.op = "save_invoice" /\ call.variant = "validated") =>
         /\ call.total = RefLineSum(SelectSeq(request.form.lines,
                             LAMBDA r : Trimmed(r.item) # "" /\ r.qty # 0))
         /\ call.coll_total = RefPositiveSum(request.form.collections)
         /\ call.due_total = RefAmountSum(SelectSeq(request.form.dues,
                                 LAMBDA r : r.amount > 0 /\ Trimmed(r.shop_no) # ""))
    /\ (Saved /\ request.op = "save_invoice") =>
        LET header == HeaderOf(db, ret.inv_id)
        IN  /\ Len(header) = 1
            /\ header[1].total_amount
                 = RefLineSum(RowsOf(db.invoice_lines, ret.inv_id))
            /\ header[1].collection_amount
                 = RefAmountSum(RowsOf(db.invoice_collections, ret.inv_id))
            /\ header[1].due_amount
                 = RefAmountSum(RowsOf(db.invoice_dues, ret.inv_id))

\* an invoice saved from a form of which the handler dropped a line, a
\* non-positive collection or a due without shop
C28_Witness ==
    /\ Saved
    /\ request.op = "save_invoice"
    /\ Len(request.form.lines) > Len(call.lines)
    /\ Len(request.form.dues) > Len(call.dues)
    /\ RowsOf(db.invoice_lines, ret.inv_id) # <<>>
    /\ RowsOf(db.invoice_collections, ret.inv_id) # <<>>

\* C29: the flag of a session starts false; it becomes true only in the
\* Login handler, for a user id and a password that both equal the
\* configured ones, and a login with other credentials leaves it false; a
\* delete handler of the Admin page runs, and a committed row disappears,
\* only while the flag is true; and the handlers that call create_invoice,
\* add_inventory_movement and upsert_item call them whatever the flag.
C29_AdminBehindLogin ==
    /\ ~authed
    /\ [][ /\ (~authed /\ authed') =>
                /\ request.op = "login"
                /\ request.form.user = ADMIN_USER
                /\ request.form.password = ADMIN_PASS
           /\ (~authed /\ request.op = "login"
                 /\ ~(request.form.user = ADMIN_USER /\ request.form.password = ADMIN_PASS)) =>
                ~authed'
           /\ (admin'.op \in DeleteOps /\ admin.op \notin DeleteOps) => authed
           /\ (\E t \in Tables : Len(db'[t]) < Len(db[t])) => authed
           /\ (OnPage /\ pc = "idle" /\ request.op = "save_invoice"
                 /\ Trimmed(request.form.person_name) # "") =>
                (call'.variant = "validated" /\ authed' = authed)
           /\ (OnPage /\ pc = "idle" /\ request.op = "save_item"
                 /\ Trimmed(request.form.item) # "") =>
                (admin'.op = "upsert_item" /\ authed' = authed)
           /\ (OnPage /\ pc = "idle" /\ request.op = "save_movements"
                 /\ \E i \in 1..Len(request.form.rows) : request.form.rows[i].item # "") =>
                (admin'.op = "add_inventory_movement" /\ authed' = authed)
         ]_vars

\* after a login with the configured credentials, Delete Invoice has
\* removed an invoice
C29_Witness ==
    /\ pc = "returned"
    /\ authed
    /\ request.op = "delete"
    /\ admin.op = "delete_invoice"
    /\ HeaderOf(pre, admin.id) # <<>>
    /\ HeaderOf(db, admin.id) = <<>>

====
